---- MODULE Spec2Model ----
(***************************************************************************)
(* Model of the meeting-booking agent:                                     *)
(*   - GoogleCalendarAPIExecutor (google_calendar_integration_openai.py),  *)
(*     the Step Executor used by the agent and by test_agent.py;           *)
(*   - MeetingBookingMCPAgent (meeting_booking_agent.py): plan builder,    *)
(*     plan runner with the pending action, response synthesizer.          *)
(* Python dicts are records whose DOMAIN is the set of keys present.       *)
(* A call that ends by raising is the record [raised |-> <exception>].     *)
(* A naive datetime is an integer: minutes since midnight of day 0.        *)
(***************************************************************************)
EXTENDS Integers, Sequences, FiniteSets, TLC

VARIABLES
    pending_action,             \* self.pending_action ("None" or an action name)
    pending_action_contact_id,  \* self.pending_action_contact_id ("UNSET": no such attribute yet)
    pc,                         \* position of the current call on the agent
    plan,                       \* the plan of the current _execute_plan run
    results,                    \* the results dict of the current run
    calls,                      \* steps handed to api_executor.execute in this run, with what came back
    outcome,                    \* what the last finished call on the agent returned or raised
    recorded,                   \* whether this run executed the assignment to self.pending_action
    runs,                       \* number of calls started on this agent instance
    xcall,                      \* executor harness: the call made on the executor
    xret,                       \* executor harness: what that call returned or raised
    sessions                    \* two-instance scenario: the fields of each agent instance and the position of its run

vars == <<pending_action, pending_action_contact_id, pc, plan, results, calls,
          outcome, recorded, runs, xcall, xret, sessions>>

agentVars == <<pending_action, pending_action_contact_id, pc, plan, results, calls,
               outcome, recorded, runs, sessions>>

execVars == <<xcall, xret>>

(***************************************************************************)
(* Bounds of the model.                                                    *)
(***************************************************************************)
MaxPlanLen == 2     \* longest hand-written plan handed to _execute_plan
MaxRuns == 2        \* calls made on one agent instance
MaxBusyTick == 3    \* busy endpoints lie on quarter hours around the window edges

(***************************************************************************)
(* Program constants.                                                      *)
(***************************************************************************)
start_hour == 9
end_hour == 17
duration == 30
SlotStride == 30

Raised(e) == [raised |-> e]
IsRaised(r) == "raised" \in DOMAIN r
Succeeded(r) == ~IsRaised(r) /\ "success" \in DOMAIN r /\ r.success = TRUE

\* dict.get(key, default)
Get(d, k, default) == IF k \in DOMAIN d THEN d[k] ELSE default

(***************************************************************************)
(* Text handling of the directory lookup: str.lower() and substring test.  *)
(***************************************************************************)
Names == {"Chinmay Sir", "chinmay", "John", "john doe", ""}

Lower(s) ==
    CASE s = "Chinmay Sir" -> "chinmay sir"
      [] s = "John" -> "john"
      [] OTHER -> s

\* a in b, for the lowered names of the model
SubstringOf(a, b) ==
    \/ a = ""
    \/ a = b
    \/ a = "chinmay" /\ b = "chinmay sir"
    \/ a = "john" /\ b = "john doe"

\* resourceName.split('/')[-1]
LastSegment(resourceName) ==
    CASE resourceName = "people/c1" -> "c1"
      [] resourceName = "people/c2" -> "c2"
      [] OTHER -> resourceName

RECURSIVE FirstMatchingName(_, _, _)
\* inner loop of _find_contact: index of the first name object matching, 0 if none
FirstMatchingName(names, query, i) ==
    IF i > Len(names) THEN 0
    ELSE IF SubstringOf(query, Lower(Get(names[i], "displayName", ""))) THEN i
    ELSE FirstMatchingName(names, query, i + 1)

RECURSIVE MatchingContacts(_, _, _)
\* outer loop of _find_contact; a person with an empty emailAddresses list
\* makes [..][0] raise IndexError
MatchingContacts(connections, query, i) ==
    IF i > Len(connections) THEN [list |-> << >>]
    ELSE LET person == connections[i]
             names == Get(person, "names", << >>)
             k == FirstMatchingName(names, query, 1)
         IN  IF k = 0 THEN MatchingContacts(connections, query, i + 1)
             ELSE IF "resourceName" \notin DOMAIN person THEN Raised("KeyError")
             ELSE IF Len(Get(person, "emailAddresses", <<[x |-> ""]>>)) = 0
                  THEN Raised("IndexError")
             ELSE LET rest == MatchingContacts(connections, query, i + 1)
                      emails == Get(person, "emailAddresses", <<[x |-> ""]>>)
                      c == [contact_id |-> LastSegment(person.resourceName),
                            name |-> Get(names[k], "displayName", ""),
                            email |-> Get(emails[1], "value", "")]
                  IN  IF IsRaised(rest) THEN rest
                      ELSE [list |-> <<c>> \o rest.list]

\* env.list: what people().connections().list(...).execute() does
_find_contact(name, env) ==
    IF env.list.raises THEN
        [success |-> FALSE, error |-> <<"Error finding contact: ", "list">>]
    ELSE LET m == MatchingContacts(Get(env.list.body, "connections", << >>), Lower(name), 1)
         IN  IF IsRaised(m) THEN
                 [success |-> FALSE, error |-> <<"Error finding contact: ", m.raised>>]
             ELSE IF Len(m.list) > 0 THEN
                 [success |-> TRUE, contact_id |-> m.list[1].contact_id,
                  name |-> m.list[1].name, email |-> m.list[1].email]
             ELSE [success |-> FALSE, error |-> <<"No contact found with name ", name>>]

\* what people().get(resourceName=people/<id>).execute() does when the
\* directory has no such person
NotFound == [raises |-> TRUE, body |-> [x \in {} |-> 0]]

\* env.people[id]: what people().get(resourceName=people/<id>).execute() does
_get_contact_details(contact_id, env) ==
    IF Get(env.people, contact_id, NotFound).raises THEN
        [success |-> FALSE, error |-> <<"Error getting contact details: ", "get">>]
    ELSE LET person == env.people[contact_id].body
             names == Get(person, "names", << >>)
             emails == Get(person, "emailAddresses", << >>)
             phones == Get(person, "phoneNumbers", << >>)
         IN  [success |-> TRUE,
              contact_id |-> contact_id,
              name |-> IF Len(names) > 0 THEN Get(names[1], "displayName", "") ELSE "",
              email |-> IF Len(emails) > 0 THEN Get(emails[1], "value", "") ELSE "",
              phone |-> IF Len(phones) > 0 THEN Get(phones[1], "value", "") ELSE ""]

(***************************************************************************)
(* Dates and timestamps.  A date string is [kind, day]: kind "iso" parses  *)
(* to the day, "junk" is text date.fromisoformat rejects ("PLACEHOLDER"),  *)
(* "empty" is '', "none" is None.  A timestamp string is [min, sfx]: the   *)
(* minutes and the text after the seconds ("", "Z", "+00:00", or "bad"     *)
(* for text datetime.fromisoformat rejects).                               *)
(***************************************************************************)
NoDate == [kind |-> "none", day |-> 0]

\* truth value of a date argument in `if date:`
Truthy(date) == date.kind \in {"iso", "junk"}

\* datetime.datetime.combine(base_date, datetime.time(hour, 0))
Combine(base_date, hour) == base_date * 1440 + hour * 60

\* naive_datetime.isoformat() + "Z"
IsoZ(t) == [min |-> t, sfx |-> "Z"]

\* s.replace('Z', '+00:00')
ReplaceZ(s) == IF s.sfx = "Z" THEN [min |-> s.min, sfx |-> "+00:00"] ELSE s

\* datetime.datetime.fromisoformat(s): a datetime [min, aware], or ValueError
FromIsoformat(s) ==
    IF s.sfx = "bad" THEN Raised("ValueError")
    ELSE [min |-> s.min, aware |-> s.sfx # ""]

RECURSIVE BusyPeriods(_, _)
\* lines 173-177: parse every busy period of all_busy
BusyPeriods(all_busy, i) ==
    IF i > Len(all_busy) THEN [list |-> << >>]
    ELSE LET period == all_busy[i]
         IN  IF "start" \notin DOMAIN period THEN Raised("KeyError")
             ELSE LET start == FromIsoformat(ReplaceZ(period["start"]))
                  IN  IF IsRaised(start) THEN start
                      ELSE IF "end" \notin DOMAIN period THEN Raised("KeyError")
                      ELSE LET end == FromIsoformat(ReplaceZ(period["end"]))
                           IN  IF IsRaised(end) THEN end
                               ELSE LET rest == BusyPeriods(all_busy, i + 1)
                                    IN  IF IsRaised(rest) THEN rest
                                        ELSE [list |-> <<[start |-> start, end |-> end]>> \o rest.list]

\* an overlap test that only asks whether the slot starts inside the busy period
Overlaps_startInside(current_time, slot_end, busy_start, busy_end) ==
    IF busy_start.aware \/ busy_end.aware THEN "TypeError"
    ELSE IF busy_start.min <= current_time /\ current_time < busy_end.min THEN "yes"
    ELSE "no"

\* not (slot_end <= busy_start or current_time >= busy_end), current_time and
\* slot_end naive: ordering a naive against an aware datetime is a TypeError,
\* and `or` does not evaluate its right side when the left side is true
Overlaps(current_time, slot_end, busy_start, busy_end) ==
    IF busy_start.aware THEN "TypeError"
    ELSE IF slot_end <= busy_start.min THEN "no"
    ELSE IF busy_end.aware THEN "TypeError"
    ELSE IF current_time >= busy_end.min THEN "no"
    ELSE "yes"

RECURSIVE IsFree(_, _, _, _)
\* lines 184-189: the for loop over busy_periods, with its break
IsFree(current_time, slot_end, busy_periods, i) ==
    IF i > Len(busy_periods) THEN "yes"
    ELSE LET o == Overlaps(current_time, slot_end, busy_periods[i].start, busy_periods[i].end)
         IN  IF o = "TypeError" THEN o
             ELSE IF o = "yes" THEN "no"
             ELSE IsFree(current_time, slot_end, busy_periods, i + 1)

\* a loop that stops before a slot ending exactly at time_max
LoopCondition_strict(current_time, time_max) == current_time + duration < time_max

\* the loop condition of line 182
LoopCondition(current_time, time_max) == current_time + duration <= time_max

RECURSIVE FreeSlots_halfStride(_, _, _)
\* a loop whose cursor advances by half the slot duration
FreeSlots_halfStride(current_time, time_max, busy_periods) ==
    IF ~LoopCondition(current_time, time_max) THEN [list |-> << >>]
    ELSE LET slot_end == current_time + duration
             f == IsFree(current_time, slot_end, busy_periods, 1)
         IN  IF f = "TypeError" THEN Raised("TypeError")
             ELSE LET rest == FreeSlots_halfStride(current_time + (duration \div 2),
                                                   time_max, busy_periods)
                  IN  IF IsRaised(rest) THEN rest
                      ELSE IF f = "yes"
                           THEN [list |-> <<[start_time |-> IsoZ(current_time),
                                             end_time |-> IsoZ(slot_end)]>> \o rest.list]
                           ELSE rest

RECURSIVE FreeSlots(_, _, _)
\* lines 179-197: the while loop, from current_time on
FreeSlots(current_time, time_max, busy_periods) ==
    IF ~LoopCondition(current_time, time_max) THEN [list |-> << >>]
    ELSE LET slot_end == current_time + duration
             f == IsFree(current_time, slot_end, busy_periods, 1)
         IN  IF f = "TypeError" THEN Raised("TypeError")
             ELSE LET rest == FreeSlots(current_time + SlotStride, time_max, busy_periods)
                  IN  IF IsRaised(rest) THEN rest
                      ELSE IF f = "yes"
                           THEN [list |-> <<[start_time |-> IsoZ(current_time),
                                             end_time |-> IsoZ(slot_end)]>> \o rest.list]
                           ELSE rest

\* lines 136-139: the reference day, or ValueError
BaseDate(date, today) ==
    IF Truthy(date)
    THEN IF date.kind = "iso" THEN [day |-> date.day] ELSE Raised("ValueError")
    ELSE [day |-> today + 1]

ErrFreeSlots(e) == [success |-> FALSE, error |-> <<"Error getting free slots: ", e>>]

\* env.today: date.today(); env.people: the directory lookups;
\* env.freebusy: what freebusy().query(body).execute() does
_get_free_slots(user_id, other_user_id, date, env) ==
    LET base == BaseDate(date, env.today)
    IN  IF IsRaised(base) THEN ErrFreeSlots(base.raised)
        ELSE
        LET base_date == base.day
            contact_details == _get_contact_details(other_user_id, env)
        IN  IF ~Get(contact_details, "success", FALSE) THEN
                [success |-> FALSE, error |-> <<"Could not find contact email", "">>]
            ELSE IF Get(contact_details, "email", "") = "" THEN
                [success |-> FALSE, error |-> <<"Contact does not have an email address", "">>]
            ELSE
            LET contact_email == contact_details.email
                time_min == Combine(base_date, start_hour)
                time_max == Combine(base_date, end_hour)
            IN  IF env.freebusy.raises THEN ErrFreeSlots("query")
                ELSE
                LET calendars == Get(env.freebusy.body, "calendars", [x \in {} |-> 0])
                    primary_busy == Get(Get(calendars, "primary", [x \in {} |-> 0]), "busy", << >>)
                    other_busy == Get(Get(calendars, contact_email, [x \in {} |-> 0]), "busy", << >>)
                    all_busy == primary_busy \o other_busy
                    busy_periods == BusyPeriods(all_busy, 1)
                IN  IF IsRaised(busy_periods) THEN ErrFreeSlots(busy_periods.raised)
                    ELSE
                    LET free_slots == FreeSlots(time_min, time_max, busy_periods.list)
                    IN  IF IsRaised(free_slots) THEN ErrFreeSlots(free_slots.raised)
                        ELSE [success |-> TRUE, date |-> base_date, slots |-> free_slots.list]

(***************************************************************************)
(* The other operations of the executor.                                   *)
(***************************************************************************)
_ask_user_for_preferences ==
    [success |-> TRUE, duration |-> 45, preferred_times |-> <<"afternoon">>, buffer |-> 10]

_get_meeting_preferences(user_id, ask_user) ==
    IF ask_user THEN _ask_user_for_preferences
    ELSE [success |-> TRUE, duration |-> 30,
          preferred_times |-> <<"morning", "afternoon">>, buffer |-> 15]

\* env.events: what events().list(...).execute() does
_check_availability(user_id, start_time, end_time, env) ==
    LET start_dt == FromIsoformat(ReplaceZ(start_time))
        end_dt == FromIsoformat(ReplaceZ(end_time))
        err(e) == [success |-> FALSE, error |-> <<"Error checking availability: ", e>>]
    IN  IF IsRaised(start_dt) THEN err(start_dt.raised)
        ELSE IF IsRaised(end_dt) THEN err(end_dt.raised)
        ELSE IF env.events.raises THEN err("list")
        ELSE LET events == Get(env.events.body, "items", << >>)
             IN  [success |-> TRUE, is_available |-> Len(events) = 0,
                  conflicting_events |-> Len(events)]

\* '@' in attendee_id
HasAt(attendee_id) == attendee_id \in {"a@x.com", "b@x.com"}

RECURSIVE AttendeeEmails_keepUnresolved(_, _, _)
\* an invite list that keeps an entry for every attendee, resolved or not
AttendeeEmails_keepUnresolved(attendees, i, env) ==
    IF i > Len(attendees) THEN << >>
    ELSE LET attendee_id == attendees[i]
             rest == AttendeeEmails_keepUnresolved(attendees, i + 1, env)
         IN  IF HasAt(attendee_id) THEN <<[email |-> attendee_id]>> \o rest
             ELSE <<[email |-> Get(_get_contact_details(attendee_id, env), "email", "")]>>
                  \o rest

RECURSIVE AttendeeEmails(_, _, _)
\* lines 261-268: the invite list
AttendeeEmails(attendees, i, env) ==
    IF i > Len(attendees) THEN << >>
    ELSE LET attendee_id == attendees[i]
             rest == AttendeeEmails(attendees, i + 1, env)
         IN  IF HasAt(attendee_id) THEN <<[email |-> attendee_id]>> \o rest
             ELSE LET contact == _get_contact_details(attendee_id, env)
                  IN  IF Get(contact, "success", FALSE) /\ Get(contact, "email", "") # ""
                      THEN <<[email |-> contact.email]>> \o rest
                      ELSE rest

\* env.insert: what events().insert(...).execute() does
_book_meeting(title, attendees, start_time, end_time, description, env) ==
    LET attendee_emails == AttendeeEmails(attendees, 1, env)
    IN  IF env.insert.raises THEN
            [success |-> FALSE, error |-> <<"Error booking meeting: ", "insert">>]
        ELSE [success |-> TRUE,
              meeting_id |-> Get(env.insert.body, "id", "None"),
              title |-> title,
              start_time |-> start_time,
              end_time |-> end_time,
              attendees |-> [i \in 1..Len(attendee_emails) |-> attendee_emails[i].email],
              link |-> Get(env.insert.body, "htmlLink", "None")]

(***************************************************************************)
(* Dispatch.  params[key] on a missing key raises KeyError outside any     *)
(* try block; params.get(key) does not.                                    *)
(***************************************************************************)
Has(params, keys) == keys \subseteq DOMAIN params

_execute_contacts_api(action, params, env) ==
    IF action = "find_contact" THEN
        IF Has(params, {"name"}) THEN _find_contact(params["name"], env)
        ELSE Raised("KeyError")
    ELSE IF action = "get_contact_details" THEN
        IF Has(params, {"contact_id"}) THEN _get_contact_details(params["contact_id"], env)
        ELSE Raised("KeyError")
    ELSE [success |-> FALSE, error |-> <<"Unknown contacts action: ", action>>]

_execute_calendar_api(action, params, env) ==
    IF action = "check_availability" THEN
        IF Has(params, {"user_id", "start_time", "end_time"})
        THEN _check_availability(params["user_id"], params["start_time"], params["end_time"], env)
        ELSE Raised("KeyError")
    ELSE IF action = "get_free_slots" THEN
        IF Has(params, {"user_id", "other_user_id"})
        THEN _get_free_slots(params["user_id"], params["other_user_id"],
                             Get(params, "date", NoDate), env)
        ELSE Raised("KeyError")
    ELSE IF action = "book_meeting" THEN
        IF Has(params, {"title", "attendees", "start_time", "end_time"})
        THEN _book_meeting(params["title"], params["attendees"], params["start_time"],
                           params["end_time"], Get(params, "description", ""), env)
        ELSE Raised("KeyError")
    ELSE [success |-> FALSE, error |-> <<"Unknown calendar action: ", action>>]

_execute_preferences_api(action, params, env) ==
    IF action = "get_meeting_preferences" THEN
        IF Has(params, {"user_id"})
        THEN _get_meeting_preferences(params["user_id"], Get(params, "ask_user", FALSE))
        ELSE Raised("KeyError")
    ELSE [success |-> FALSE, error |-> <<"Unknown preferences action: ", action>>]

\* a dispatch whose last branch serves the contacts api instead of refusing
execute_lastBranchContacts(api_name, action, params, env) ==
    IF api_name = "calendar" THEN _execute_calendar_api(action, params, env)
    ELSE IF api_name = "preferences" THEN _execute_preferences_api(action, params, env)
    ELSE _execute_contacts_api(action, params, env)

execute(api_name, action, params, env) ==
    IF api_name = "contacts" THEN _execute_contacts_api(action, params, env)
    ELSE IF api_name = "calendar" THEN _execute_calendar_api(action, params, env)
    ELSE IF api_name = "preferences" THEN _execute_preferences_api(action, params, env)
    ELSE [success |-> FALSE, error |-> <<"Unknown API: ", api_name>>]

(***************************************************************************)
(* The requests a call sends to the collaborators, in order.  A request is *)
(* [svc, arg]: the service method and what identifies the request.         *)
(***************************************************************************)
Request(svc, arg) == [svc |-> svc, arg |-> arg]

\* line 65-70: one list request, whatever the name
FindContactRequests(name, env) == <<Request("people.connections.list", "people/me")>>

\* lines 103-106: one get request
ContactDetailsRequests(contact_id, env) == <<Request("people.get", contact_id)>>

\* lines 136-165: nothing when the date does not parse, the directory
\* lookup, then the free/busy query if the contact has an address
FreeSlotsRequests(user_id, other_user_id, date, env) ==
    LET base == BaseDate(date, env.today)
    IN  IF IsRaised(base) THEN << >>
        ELSE LET contact_details == _get_contact_details(other_user_id, env)
             IN  ContactDetailsRequests(other_user_id, env)
                 \o (IF Get(contact_details, "success", FALSE)
                        /\ Get(contact_details, "email", "") # ""
                     THEN <<Request("freebusy.query",
                                    [timeMin |-> IsoZ(Combine(base.day, start_hour)),
                                     timeMax |-> IsoZ(Combine(base.day, end_hour)),
                                     items |-> <<"primary", contact_details.email>>])>>
                     ELSE << >>)

\* lines 235-244: the list request once both timestamps parse
CheckAvailabilityRequests(user_id, start_time, end_time, env) ==
    IF IsRaised(FromIsoformat(ReplaceZ(start_time)))
       \/ IsRaised(FromIsoformat(ReplaceZ(end_time)))
    THEN << >>
    ELSE <<Request("events.list", "primary")>>

RECURSIVE AttendeeRequests(_, _, _)
\* lines 262-266: one get request per attendee entry without '@'
AttendeeRequests(attendees, i, env) ==
    IF i > Len(attendees) THEN << >>
    ELSE (IF HasAt(attendees[i]) THEN << >>
          ELSE ContactDetailsRequests(attendees[i], env))
         \o AttendeeRequests(attendees, i + 1, env)

\* lines 261-291: the lookups, then the insert with the invite list as body
BookMeetingRequests(title, attendees, start_time, end_time, description, env) ==
    AttendeeRequests(attendees, 1, env)
    \o <<Request("events.insert", [attendees |-> AttendeeEmails(attendees, 1, env)])>>

\* the requests of execute(api_name, action, params), by the same dispatch
ExecuteRequests(api_name, action, params, env) ==
    IF api_name = "contacts" /\ action = "find_contact" /\ Has(params, {"name"})
    THEN FindContactRequests(params["name"], env)
    ELSE IF api_name = "contacts" /\ action = "get_contact_details" /\ Has(params, {"contact_id"})
    THEN ContactDetailsRequests(params["contact_id"], env)
    ELSE IF api_name = "calendar" /\ action = "check_availability"
            /\ Has(params, {"user_id", "start_time", "end_time"})
    THEN CheckAvailabilityRequests(params["user_id"], params["start_time"],
                                   params["end_time"], env)
    ELSE IF api_name = "calendar" /\ action = "get_free_slots"
            /\ Has(params, {"user_id", "other_user_id"})
    THEN FreeSlotsRequests(params["user_id"], params["other_user_id"],
                           Get(params, "date", NoDate), env)
    ELSE IF api_name = "calendar" /\ action = "book_meeting"
            /\ Has(params, {"title", "attendees", "start_time", "end_time"})
    THEN BookMeetingRequests(params["title"], params["attendees"], params["start_time"],
                             params["end_time"], Get(params, "description", ""), env)
    ELSE << >>

(***************************************************************************)
(* Behaviours of the collaborators (the Google services and the clock)     *)
(* that the model draws from.                                              *)
(***************************************************************************)
EmptyDict == [x \in {} |-> 0]
Fails == [raises |-> TRUE, body |-> EmptyDict]
Returns(body) == [raises |-> FALSE, body |-> body]

PersonWithEmail(e) ==
    Returns([names |-> <<[displayName |-> "Chinmay Sir"]>>,
             emailAddresses |-> <<[value |-> e]>>])

\* people().get: fails, a person with an address, with an empty address, with none
PersonOutcomes ==
    {Fails, PersonWithEmail("c@x.com"), PersonWithEmail(""),
     Returns([names |-> <<[displayName |-> "John"]>>])}

Connection(rn, n, emails) ==
    [resourceName |-> rn, names |-> <<[displayName |-> n]>>, emailAddresses |-> emails]

\* people().connections().list: fails, no connections, connections in service order
ListOutcomes ==
    {Fails, Returns(EmptyDict),
     Returns([connections |-> <<Connection("people/c1", "Chinmay Sir", <<[value |-> "c@x.com"]>>)>>]),
     Returns([connections |-> <<Connection("people/c2", "john doe", <<[value |-> "j@x.com"]>>),
                                Connection("people/c1", "Chinmay Sir", <<[value |-> "c@x.com"]>>)>>]),
     Returns([connections |-> <<Connection("people/c1", "Chinmay Sir", << >>)>>]),
     Returns([connections |-> <<[resourceName |-> "people/c2",
                                 names |-> <<[displayName |-> "john doe"]>>]>>])}

\* quarter hours around the start of the window and around its end
BusyTimes(time_min, time_max) ==
    {time_min + 15 * k : k \in -1..MaxBusyTick} \cup {time_max + 15 * k : k \in -1..1}

\* how the service writes the two timestamps of a busy period
Stamp(t, fmt, which) ==
    [min |-> t,
     sfx |-> CASE fmt = "naive" -> ""
               [] fmt = "Z" -> "Z"
               [] fmt = "mixed" -> IF which = "start" THEN "" ELSE "Z"
               [] OTHER -> "bad"]

BusyInputs(time_min, time_max) ==
    {[start |-> Stamp(b, fmt, "start"), end |-> Stamp(e, fmt, "end")] :
        <<b, e, fmt>> \in {x \in BusyTimes(time_min, time_max) \X BusyTimes(time_min, time_max)
                                 \X {"naive", "Z", "mixed", "bad"} : x[1] < x[2]}}

BusyLists(time_min, time_max) ==
    {<< >>} \cup {<<b>> : b \in BusyInputs(time_min, time_max)}

\* freebusy().query: the body of a successful answer
FreebusyBody(primary_busy, email, other_busy) ==
    [calendars |-> ("primary" :> [busy |-> primary_busy] @@ email :> [busy |-> other_busy])]

DefaultEnv ==
    [today |-> 0, list |-> Fails, people |-> EmptyDict, freebusy |-> Fails,
     events |-> Fails, insert |-> Fails]

DateInputs ==
    {[kind |-> "iso", day |-> 0], [kind |-> "iso", day |-> 3],
     [kind |-> "junk", day |-> 0], [kind |-> "empty", day |-> 0]}

(***************************************************************************)
(* Calls on the executor: execute(api_name, action, params) under a        *)
(* behaviour env of the collaborators.                                     *)
(***************************************************************************)
\* no second instance is constructed outside the two-instance scenario
NoSessions == << >>

NoCall == [api |-> "", action |-> "", params |-> EmptyDict, env |-> DefaultEnv]

\* the executor keeps no state between calls: each call is observed on its own
Fresh == xcall = NoCall

Call(api_name, action, params, env) ==
    /\ xcall' = [api |-> api_name, action |-> action, params |-> params, env |-> env,
                 sent |-> ExecuteRequests(api_name, action, params, env)]
    /\ xret' = execute(api_name, action, params, env)
    /\ UNCHANGED agentVars

\* the work window the free/busy query of a get_free_slots call asks for
WindowDay(date, today) ==
    LET base == BaseDate(date, today) IN IF IsRaised(base) THEN today + 1 ELSE base.day

WithDate(params, date) ==
    IF date.kind = "none" THEN params ELSE params @@ [date |-> date]

\* the answers of the calendar drawn when the call is not about the busy periods
FewFreebusy(time_min, time_max, email) ==
    {Fails, Returns(EmptyDict),
     Returns(FreebusyBody(<< >>, email, << >>)),
     Returns(FreebusyBody(<<[start |-> Stamp(time_min, "naive", "start"),
                             end |-> Stamp(time_min + 30, "naive", "end")]>>, email,
                          <<[start |-> Stamp(time_min, "naive", "start"),
                             end |-> Stamp(time_min + 30, "naive", "end")]>>)),
     Returns(FreebusyBody(<<[start |-> Stamp(time_min, "naive", "start"),
                             end |-> Stamp(time_max, "naive", "end")]>>, email, << >>)),
     Returns(FreebusyBody(<<[start |-> Stamp(time_min, "Z", "start"),
                             end |-> Stamp(time_min + 30, "Z", "end")]>>, email, << >>))}

\* get_free_slots with a contact that resolves, over the busy periods of both parties
ExecFreeSlotsBusy ==
    /\ Fresh
    /\ \E today \in 0..1 :
      LET time_min == Combine(today + 1, start_hour)
          time_max == Combine(today + 1, end_hour)
      IN  \E primary_busy \in BusyLists(time_min, time_max),
             other_busy \in BusyLists(time_min, time_max) :
            Call("calendar", "get_free_slots",
                 [user_id |-> "primary", other_user_id |-> "c1"],
                 [DefaultEnv EXCEPT !.today = today,
                                    !.people = "c1" :> PersonWithEmail("c@x.com"),
                                    !.freebusy = Returns(FreebusyBody(primary_busy, "c@x.com", other_busy))])

\* get_free_slots over the dates, the contact ids and the directory's answers
ExecFreeSlotsContact ==
    /\ Fresh
    /\ \E date \in DateInputs \cup {NoDate}, id \in {"c1", "PLACEHOLDER"},
       person \in PersonOutcomes \cup {NotFound} :
      LET day == WindowDay(date, 0)
      IN  \E fb \in FewFreebusy(Combine(day, start_hour), Combine(day, end_hour), "c@x.com") :
            Call("calendar", "get_free_slots",
                 WithDate([user_id |-> "primary", other_user_id |-> id], date),
                 [DefaultEnv EXCEPT !.people = IF person = NotFound THEN EmptyDict
                                               ELSE id :> person,
                                    !.freebusy = fb])

ExecFindContact ==
    /\ Fresh
    /\ \E name \in Names, l \in ListOutcomes :
      Call("contacts", "find_contact", [name |-> name], [DefaultEnv EXCEPT !.list = l])

ExecGetContactDetails ==
    /\ Fresh
    /\ \E id \in {"c1", "c2"}, person \in PersonOutcomes :
      Call("contacts", "get_contact_details", [contact_id |-> id],
           [DefaultEnv EXCEPT !.people = "c1" :> person])

ExecCheckAvailability ==
    /\ Fresh
    /\ \E sfx1 \in {"", "Z", "bad"}, sfx2 \in {"", "Z", "bad"},
       ev \in {Fails, Returns(EmptyDict), Returns([items |-> << >>]),
               Returns([items |-> <<[id |-> "e1"]>>])} :
      Call("calendar", "check_availability",
           [user_id |-> "primary", start_time |-> [min |-> 600, sfx |-> sfx1],
            end_time |-> [min |-> 630, sfx |-> sfx2]],
           [DefaultEnv EXCEPT !.events = ev])

AttendeeIds == {"a@x.com", "b@x.com", "c1", "c2"}

ExecBookMeeting ==
    /\ Fresh
    /\ \E attendees \in {<< >>} \cup {<<a>> : a \in AttendeeIds}
                     \cup {<<a, b>> : <<a, b>> \in AttendeeIds \X AttendeeIds},
       p1 \in PersonOutcomes,
       ins \in {Fails, Returns([id |-> "m1", htmlLink |-> "http://m1"])} :
      Call("calendar", "book_meeting",
           [title |-> "Meeting", attendees |-> attendees,
            start_time |-> IsoZ(600), end_time |-> IsoZ(630)],
           [DefaultEnv EXCEPT !.people = "c1" :> p1, !.insert = ins])

ExecPreferences ==
    /\ Fresh
    /\ \E params \in {[user_id |-> "primary"], [user_id |-> "primary", ask_user |-> TRUE],
                   [user_id |-> "primary", ask_user |-> FALSE]} :
      Call("preferences", "get_meeting_preferences", params, DefaultEnv)

KnownPairs ==
    {<<"contacts", "find_contact">>, <<"contacts", "get_contact_details">>,
     <<"calendar", "check_availability">>, <<"calendar", "get_free_slots">>,
     <<"calendar", "book_meeting">>, <<"preferences", "get_meeting_preferences">>}

\* the params the plan builder and the documented operations pass, and dicts
\* that lack one of their keys
ParamInputs ==
    {EmptyDict, [name |-> "John"], [contact_id |-> "c1"], [user_id |-> "primary"],
     [user_id |-> "primary", other_user_id |-> "c1"],
     [user_id |-> "primary", start_time |-> IsoZ(600)],
     [title |-> "Meeting", attendees |-> << >>, start_time |-> IsoZ(600)]}

\* any api name and action with params that may lack keys
ExecAny ==
    /\ Fresh
    /\ \E api_name \in {"contacts", "calendar", "preferences", "billing"},
       action \in {"find_contact", "get_contact_details", "check_availability",
                   "get_free_slots", "book_meeting", "get_meeting_preferences", "cancel"},
       params \in ParamInputs :
      Call(api_name, action, params, DefaultEnv)

InitExec ==
    /\ pending_action = "None"
    /\ pending_action_contact_id = "UNSET"
    /\ pc = "idle"
    /\ plan = << >>
    /\ results = EmptyDict
    /\ calls = << >>
    /\ outcome = EmptyDict
    /\ recorded = FALSE
    /\ runs = 0
    /\ xcall = NoCall
    /\ xret = EmptyDict
    /\ sessions = NoSessions

NextExec ==
    \/ ExecFreeSlotsBusy
    \/ ExecFreeSlotsContact
    \/ ExecFindContact
    \/ ExecGetContactDetails
    \/ ExecCheckAvailability
    \/ ExecBookMeeting
    \/ ExecPreferences
    \/ ExecAny

SpecExec == InitExec /\ [][NextExec]_vars

(***************************************************************************)
(* MeetingBookingMCPAgent (meeting_booking_agent.py).                      *)
(***************************************************************************)
Step(api, action, params) == [api |-> api, action |-> action, params |-> params]

\* a builder that puts the free-slot step first
BuiltPlan_slotsFirst(intent, user_id, date) ==
    <<Step("calendar", "get_free_slots",
           [user_id |-> user_id, other_user_id |-> "PLACEHOLDER", date |-> date])>>
    \o (IF "contact_name" \in DOMAIN intent
        THEN <<Step("contacts", "find_contact", [name |-> intent["contact_name"]])>>
        ELSE << >>)

\* the steps of _create_execution_plan, given the value of the date parameter
BuiltPlan(intent, user_id, date) ==
    (IF "contact_name" \in DOMAIN intent
     THEN <<Step("contacts", "find_contact", [name |-> intent["contact_name"]])>>
     ELSE << >>)
    \o (IF "ask_preferences" \in DOMAIN intent /\ intent["ask_preferences"]
        THEN <<Step("preferences", "get_meeting_preferences",
                    [user_id |-> user_id, ask_user |-> TRUE])>>
        ELSE << >>)
    \o <<Step("calendar", "get_free_slots",
              [user_id |-> user_id, other_user_id |-> "PLACEHOLDER", date |-> date])>>

\* datetime.date.today().isoformat() in a module that did
\* `from datetime import datetime`: datetime.date is the method
\* datetime.datetime.date, which has no attribute today
TodayIsoformat == Raised("AttributeError")

\* meeting_booking_agent.py: the plan [plan |-> ...], or the exception
_create_execution_plan(intent, user_id) ==
    LET date == TodayIsoformat
    IN  IF IsRaised(date) THEN date
        ELSE [plan |-> BuiltPlan(intent, user_id, date)]

\* the copy of the builder in google_calendar_integration_openai.py
_create_execution_plan_openai(intent, user_id) ==
    BuiltPlan(intent, user_id, [kind |-> "junk", day |-> 0])

\* the key f"{step['api']}_{step['action']}" of the results dict
Key(step) == step.api \o "_" \o step.action

\* results[key] = result
SetItem(d, k, v) == [x \in DOMAIN d \cup {k} |-> IF x = k THEN v ELSE d[x]]

\* a runner that suspends on the failure of any step
SuspendsOn_anyFailure(step, result) == ~Get(result, "success", FALSE)

\* the condition of line 75
SuspendsOn(step, result) ==
    step.action = "get_free_slots" /\ ~Get(result, "success", FALSE)

\* the fixed intent _parse_intent_with_llm returns when the model answers
FixedIntent ==
    [action |-> "book_meeting", contact_name |-> "Chinmay Sir", ask_preferences |-> FALSE]

\* llm: what client.chat.completions.create does
_parse_intent_with_llm(prompt, llm) ==
    IF llm.raises THEN Raised("OpenAIError") ELSE FixedIntent

\* a test that asks only whether the free-slot result is there
SlotsFound_keyOnly(res) == "calendar_get_free_slots" \in DOMAIN res

\* line 83: the free-slot result is there and its success is truthy
SlotsFound(res) ==
    /\ "calendar_get_free_slots" \in DOMAIN res
    /\ Get(res["calendar_get_free_slots"], "success", FALSE)

\* the synthesizer of google_calendar_integration_openai.py, which looks at
\* the contact only
_generate_response_openai(prompt, res) ==
    IF "contacts_find_contact" \in DOMAIN res
       /\ Get(res["contacts_find_contact"], "success", FALSE)
    THEN [message |-> "Contact found and processed.", status |-> "success"]
    ELSE [message |-> "Failed to find contact.", status |-> "error"]

_generate_response(prompt, res) ==
    IF "contacts_find_contact" \in DOMAIN res
       /\ Get(res["contacts_find_contact"], "success", FALSE)
    THEN IF SlotsFound(res)
         THEN LET slots == Get(res["calendar_get_free_slots"], "slots", << >>)
              IN  IF Len(slots) > 0
                  THEN [message |-> "Meeting slots found and processed.", status |-> "success"]
                  ELSE [message |-> "There are no available time slots. Would you like to try a different day?",
                        status |-> "success"]
         ELSE [message |-> "Failed to find available slots. Please specify a date.",
               status |-> "error"]
    ELSE [message |-> "Failed to find contact.", status |-> "error"]

(***************************************************************************)
(* Inputs of the agent model.                                              *)
(***************************************************************************)
IntentInputs ==
    {[action |-> "book_meeting"],
     [action |-> "book_meeting", contact_name |-> "Chinmay Sir"],
     [action |-> "book_meeting", contact_name |-> "Chinmay Sir", ask_preferences |-> FALSE],
     [action |-> "book_meeting", contact_name |-> "Chinmay Sir", ask_preferences |-> TRUE],
     [action |-> "book_meeting", ask_preferences |-> TRUE]}

\* plans of the shape the plan builder assembles
BuilderPlans == {_create_execution_plan_openai(intent, "primary") : intent \in IntentInputs}

\* steps of hand-written plans: the builder's steps, a free-slot step with a
\* bound contact, steps whose params lack a key, unknown actions and apis
StepInputs ==
    {Step("contacts", "find_contact", [name |-> "Chinmay Sir"]),
     Step("contacts", "find_contact", EmptyDict),
     Step("preferences", "get_meeting_preferences", [user_id |-> "primary", ask_user |-> TRUE]),
     Step("calendar", "get_free_slots",
          [user_id |-> "primary", other_user_id |-> "PLACEHOLDER",
           date |-> [kind |-> "junk", day |-> 0]]),
     Step("calendar", "get_free_slots", [user_id |-> "primary", other_user_id |-> "c1"]),
     Step("contacts", "get_free_slots", [user_id |-> "primary"]),
     Step("billing", "charge", EmptyDict)}

RECURSIVE SeqsUpTo(_, _)
SeqsUpTo(S, n) ==
    IF n = 0 THEN {<< >>}
    ELSE LET shorter == SeqsUpTo(S, n - 1)
         IN  shorter \cup {Append(q, x) : <<q, x>> \in shorter \X S}

PlanInputs == BuilderPlans \cup SeqsUpTo(StepInputs, MaxPlanLen)

\* behaviours of the collaborators during one step of a run
StepEnvs(step) ==
    IF step.action = "find_contact" THEN
        {[DefaultEnv EXCEPT !.list = l] : l \in ListOutcomes}
    ELSE IF step.action = "get_free_slots" /\ "other_user_id" \in DOMAIN step.params THEN
        LET id == step.params["other_user_id"]
            day == WindowDay(Get(step.params, "date", NoDate), 0)
        IN  {[DefaultEnv EXCEPT !.people = IF person = NotFound THEN EmptyDict ELSE id :> person,
                                !.freebusy = fb] :
                <<person, fb>> \in {NotFound, PersonWithEmail("c@x.com"), PersonWithEmail("")}
                                   \X FewFreebusy(Combine(day, start_hour),
                                                  Combine(day, end_hour), "c@x.com")}
    ELSE {DefaultEnv}

(***************************************************************************)
(* _execute_plan, one action per pass through the loop body.               *)
(***************************************************************************)
\* a caller invokes _execute_plan(plan, prompt) on the agent
StartExecutePlan ==
    /\ pc = "idle"
    /\ runs < MaxRuns
    /\ \E p \in PlanInputs : plan' = p
    /\ results' = EmptyDict
    /\ calls' = << >>
    /\ recorded' = FALSE
    /\ outcome' = EmptyDict
    /\ pc' = "running"
    /\ runs' = runs + 1
    /\ UNCHANGED <<pending_action, pending_action_contact_id, xcall, xret, sessions>>

\* line 78: the break of the suspending branch
Breaks_missing(step, result) == FALSE

Breaks(step, result) == SuspendsOn(step, result)

\* line 77: the subject id recorded with the pending action
SubjectId_user(step) == step.params["user_id"]

SubjectId(step) == step.params["other_user_id"]

\* lines 72-78: the next step of the plan goes through the executor
ExecuteStep ==
    /\ pc = "running"
    /\ Len(calls) < Len(plan)
    /\ LET step == plan[Len(calls) + 1]
       IN  \E env \in StepEnvs(step) :
             LET result == execute(step.api, step.action, step.params, env)
             IN  /\ calls' = Append(calls, [step |-> step, result |-> result])
                 /\ IF IsRaised(result)
                    THEN \* the exception leaves _execute_plan
                         /\ outcome' = [op |-> "_execute_plan", raised |-> result.raised]
                         /\ pc' = "idle"
                         /\ UNCHANGED <<results, pending_action, pending_action_contact_id,
                                        recorded>>
                    ELSE /\ results' = SetItem(results, Key(step), result)
                         /\ IF SuspendsOn(step, result)
                            THEN /\ pending_action' = "get_free_slots"
                                 /\ recorded' = TRUE
                                 /\ IF "other_user_id" \in DOMAIN step.params
                                    THEN /\ pending_action_contact_id' = SubjectId(step)
                                         /\ pc' = IF Breaks(step, result) THEN "stopped" ELSE pc
                                         /\ UNCHANGED outcome
                                    ELSE \* step['params']['other_user_id'] raises KeyError
                                         /\ outcome' = [op |-> "_execute_plan", raised |-> "KeyError"]
                                         /\ pc' = "idle"
                                         /\ UNCHANGED pending_action_contact_id
                            ELSE UNCHANGED <<pending_action, pending_action_contact_id,
                                             recorded, pc, outcome>>
    /\ UNCHANGED <<plan, runs, xcall, xret, sessions>>

\* line 79: the loop is over, by exhaustion or by break
ReturnResults ==
    /\ \/ pc = "stopped"
       \/ pc = "running" /\ Len(calls) = Len(plan)
    /\ outcome' = [op |-> "_execute_plan", value |-> results]
    /\ pc' = "idle"
    /\ UNCHANGED <<pending_action, pending_action_contact_id, plan, results, calls,
                   recorded, runs, xcall, xret, sessions>>

\* lines 25-26: the caller hands the results the run returned to
\* _generate_response
RespondToRun ==
    /\ pc = "idle"
    /\ "op" \in DOMAIN outcome
    /\ outcome.op = "_execute_plan"
    /\ "value" \in DOMAIN outcome
    /\ \E prompt \in {"Book a meeting with Chinmay Sir"} :
         outcome' = [op |-> "_generate_response",
                     value |-> _generate_response(prompt, outcome.value)]
    /\ UNCHANGED <<pending_action, pending_action_contact_id, pc, plan, results, calls,
                   recorded, runs, xcall, xret, sessions>>

(***************************************************************************)
(* process_user_prompt.                                                    *)
(***************************************************************************)
Clarify == [message |-> "I'm not sure what you want to do. Can you clarify?", status |-> "error"]

\* a test of line 23 that takes every intent for a booking
IsBookMeeting_always(intent) == TRUE

\* line 23: intent['action'] == 'book_meeting'
IsBookMeeting(intent) == intent["action"] = "book_meeting"

\* lines 23-28, once the parser has answered: the value returned, or the
\* exception that leaves the call.  line 25 calls _execute_plan(plan)
\* without its prompt argument: TypeError
AfterParse(intent, user_id) ==
    IF "action" \notin DOMAIN intent THEN Raised("KeyError")
    ELSE IF IsBookMeeting(intent)
    THEN LET built == _create_execution_plan(intent, user_id)
         IN  IF IsRaised(built) THEN built
             ELSE Raised("TypeError")
    ELSE [value |-> Clarify]

\* lines 19-28: the value returned, or the exception that leaves the call
process_user_prompt(prompt, user_id, llm) ==
    LET intent == _parse_intent_with_llm(prompt, llm)
    IN  IF IsRaised(intent) THEN intent
        ELSE AfterParse(intent, user_id)

PromptInputs == {"Book a meeting with Chinmay Sir", "Book a meeting with John", "hello", ""}

\* a caller invokes process_user_prompt; no step of a plan is ever reached,
\* so the agent's fields are as before
ProcessUserPrompt ==
    /\ pc = "idle"
    /\ runs < MaxRuns
    /\ \E prompt \in PromptInputs, llm \in {Fails, Returns([content |-> "..."])} :
         outcome' = [op |-> "process_user_prompt", prompt |-> prompt]
                    @@ process_user_prompt(prompt, "primary", llm)
    /\ plan' = << >>
    /\ results' = EmptyDict
    /\ calls' = << >>
    /\ recorded' = FALSE
    /\ runs' = runs + 1
    /\ UNCHANGED <<pending_action, pending_action_contact_id, pc, xcall, xret, sessions>>

\* what an intent parser can answer: the intents of the builder and intents
\* whose action is not a booking
ParsedIntents ==
    IntentInputs \cup {[action |-> "unknown"], [action |-> ""],
                       [action |-> "cancel_meeting", contact_name |-> "Chinmay Sir"],
                       [contact_name |-> "Chinmay Sir"]}

\* process_user_prompt on an agent whose _parse_intent_with_llm is
\* overridden by a parser that answers with any intent (the method of lines
\* 30-43 answers with FixedIntent only); lines 23-28 are as in the class
ProcessUserPromptParsed ==
    /\ pc = "idle"
    /\ runs < MaxRuns
    /\ \E prompt \in PromptInputs, intent \in ParsedIntents :
         outcome' = [op |-> "process_user_prompt", prompt |-> prompt, intent |-> intent]
                    @@ AfterParse(intent, "primary")
    /\ plan' = << >>
    /\ results' = EmptyDict
    /\ calls' = << >>
    /\ recorded' = FALSE
    /\ runs' = runs + 1
    /\ UNCHANGED <<pending_action, pending_action_contact_id, pc, xcall, xret, sessions>>

\* a caller invokes _create_execution_plan(intent, user_id); the builder
\* touches no field of the agent
CreateExecutionPlan ==
    /\ pc = "idle"
    /\ runs < MaxRuns
    /\ \E intent \in IntentInputs :
         outcome' = [op |-> "_create_execution_plan", intent |-> intent]
                    @@ _create_execution_plan(intent, "primary")
    /\ plan' = << >>
    /\ results' = EmptyDict
    /\ calls' = << >>
    /\ recorded' = FALSE
    /\ runs' = runs + 1
    /\ UNCHANGED <<pending_action, pending_action_contact_id, pc, xcall, xret, sessions>>

Init ==
    /\ pending_action = "None"
    /\ pending_action_contact_id = "UNSET"
    /\ pc = "idle"
    /\ plan = << >>
    /\ results = EmptyDict
    /\ calls = << >>
    /\ outcome = EmptyDict
    /\ recorded = FALSE
    /\ runs = 0
    /\ xcall = NoCall
    /\ xret = EmptyDict
    /\ sessions = NoSessions

Next ==
    \/ StartExecutePlan
    \/ ExecuteStep
    \/ ReturnResults
    \/ RespondToRun
    \/ ProcessUserPrompt
    \/ ProcessUserPromptParsed
    \/ CreateExecutionPlan

Spec == Init /\ [][Next]_vars

(***************************************************************************)
(* Two agent instances, one per session, whose _execute_plan runs          *)
(* interleave.  An instance's fields are the attributes __init__ and       *)
(* _execute_plan set on self; plan and done are locals of its run.         *)
(***************************************************************************)
Agents == {"A", "B"}

\* lines 14-17: the instance after construction
NewAgent ==
    [pending_action |-> "None", pending_action_contact_id |-> "UNSET",
     pc |-> "idle", plan |-> << >>, done |-> 0, runs |-> 0]

\* a pending action kept in one place for all instances
self_shared(a) == CHOOSE x \in Agents : TRUE

\* the object `self` names in a method invoked on instance a
self(a) == a

\* plans of the sessions: the builder's plans and one-step plans
SessionPlans == BuilderPlans \cup {<<s>> : s \in StepInputs}

\* lines 70-71: a session invokes _execute_plan on its instance
StartRun(a) ==
    /\ sessions[a].pc = "idle"
    /\ sessions[a].runs < MaxRuns
    /\ \E p \in SessionPlans :
         sessions' = [sessions EXCEPT ![a].plan = p, ![a].done = 0, ![a].pc = "running",
                                      ![a].runs = @ + 1]
    /\ UNCHANGED <<pending_action, pending_action_contact_id, pc, plan, results, calls,
                   outcome, recorded, runs, xcall, xret>>

\* lines 72-76: the next step goes through the executor; on a failed
\* get_free_slots self.pending_action is assigned
RunStep(a) ==
    /\ sessions[a].pc = "running"
    /\ sessions[a].done < Len(sessions[a].plan)
    /\ LET step == sessions[a].plan[sessions[a].done + 1]
       IN  \E env \in StepEnvs(step) :
             LET result == execute(step.api, step.action, step.params, env)
             IN  sessions' =
                   IF IsRaised(result)
                   THEN [sessions EXCEPT ![a].done = @ + 1, ![a].pc = "idle"]
                   ELSE IF SuspendsOn(step, result)
                   THEN [sessions EXCEPT ![a].done = @ + 1, ![a].pc = "recording",
                                         ![self(a)].pending_action = "get_free_slots"]
                   ELSE [sessions EXCEPT ![a].done = @ + 1]
    /\ UNCHANGED <<pending_action, pending_action_contact_id, pc, plan, results, calls,
                   outcome, recorded, runs, xcall, xret>>

\* lines 77-78: self.pending_action_contact_id is assigned, then the break;
\* a step without other_user_id raises KeyError instead
RecordSubject(a) ==
    /\ sessions[a].pc = "recording"
    /\ LET step == sessions[a].plan[sessions[a].done]
       IN  sessions' =
             IF "other_user_id" \in DOMAIN step.params
             THEN [sessions EXCEPT ![a].pc = "stopped",
                                   ![self(a)].pending_action_contact_id = SubjectId(step)]
             ELSE [sessions EXCEPT ![a].pc = "idle"]
    /\ UNCHANGED <<pending_action, pending_action_contact_id, pc, plan, results, calls,
                   outcome, recorded, runs, xcall, xret>>

\* line 79: the run returns
ReturnRun(a) ==
    /\ \/ sessions[a].pc = "stopped"
       \/ sessions[a].pc = "running" /\ sessions[a].done = Len(sessions[a].plan)
    /\ sessions' = [sessions EXCEPT ![a].pc = "idle"]
    /\ UNCHANGED <<pending_action, pending_action_contact_id, pc, plan, results, calls,
                   outcome, recorded, runs, xcall, xret>>

InitSessions ==
    /\ pending_action = "None"
    /\ pending_action_contact_id = "UNSET"
    /\ pc = "idle"
    /\ plan = << >>
    /\ results = EmptyDict
    /\ calls = << >>
    /\ outcome = EmptyDict
    /\ recorded = FALSE
    /\ runs = 0
    /\ xcall = NoCall
    /\ xret = EmptyDict
    /\ sessions = [a \in Agents |-> NewAgent]

NextSessions ==
    \E a \in Agents :
        \/ StartRun(a)
        \/ RunStep(a)
        \/ RecordSubject(a)
        \/ ReturnRun(a)

SpecSessions == InitSessions /\ [][NextSessions]_vars

(***************************************************************************)
(* _generate_response applied to results dicts of every shape.             *)
(***************************************************************************)
SlotAt(t) == [start_time |-> IsoZ(t), end_time |-> IsoZ(t + duration)]

ContactResults ==
    {[success |-> TRUE, contact_id |-> "c1", name |-> "Chinmay Sir", email |-> "c@x.com"],
     [success |-> FALSE, error |-> <<"No contact found with name ", "John">>],
     [success |-> FALSE, error |-> <<"Error finding contact: ", "list">>],
     EmptyDict}

SlotResults ==
    {[success |-> TRUE, date |-> 1, slots |-> << >>],
     [success |-> TRUE, date |-> 1, slots |-> <<SlotAt(540)>>],
     [success |-> TRUE, date |-> 1, slots |-> <<SlotAt(540), SlotAt(570)>>],
     [success |-> TRUE, date |-> 1],
     [success |-> FALSE, error |-> <<"Could not find contact email", "">>],
     [success |-> FALSE, slots |-> <<SlotAt(540)>>],
     EmptyDict}

ResultsInputs ==
    {r \in [{"contacts_find_contact", "calendar_get_free_slots",
             "preferences_get_meeting_preferences"}
            -> ContactResults \cup SlotResults
               \cup {[absent |-> TRUE], _get_meeting_preferences("primary", TRUE)}] :
        /\ r["contacts_find_contact"] \in ContactResults \cup {[absent |-> TRUE]}
        /\ r["calendar_get_free_slots"] \in SlotResults \cup {[absent |-> TRUE]}
        /\ r["preferences_get_meeting_preferences"]
              \in {[absent |-> TRUE], _get_meeting_preferences("primary", TRUE)}}

\* the dict whose keys are the entries that are not marked absent
Present(r) == [k \in {x \in DOMAIN r : r[x] # [absent |-> TRUE]} |-> r[k]]

InitResponse ==
    /\ pending_action = "None"
    /\ pending_action_contact_id = "UNSET"
    /\ pc = "idle"
    /\ plan = << >>
    /\ results \in {Present(r) : r \in ResultsInputs}
    /\ calls = << >>
    /\ outcome = EmptyDict
    /\ recorded = FALSE
    /\ runs = 0
    /\ xcall = NoCall
    /\ xret = EmptyDict
    /\ sessions = NoSessions

GenerateResponse ==
    /\ outcome = EmptyDict
    /\ \E prompt \in PromptInputs :
         outcome' = [op |-> "_generate_response",
                     value |-> _generate_response(prompt, results)]
    /\ UNCHANGED <<pending_action, pending_action_contact_id, pc, plan, results, calls,
                   recorded, runs, xcall, xret, sessions>>

NextResponse == GenerateResponse

SpecResponse == InitResponse /\ [][NextResponse]_vars

(***************************************************************************)
(* Properties.                                                             *)
(***************************************************************************)
IsFreeSlotsCall == xcall.api = "calendar" /\ xcall.action = "get_free_slots"

\* the reference day of the call, and the busy periods the calendar reported
CallDay == WindowDay(Get(xcall.params, "date", NoDate), xcall.env.today)
CallCalendars == Get(xcall.env.freebusy.body, "calendars", EmptyDict)
CallBusy ==
    UNION {{CallCalendars[k].busy[i] : i \in 1..Len(CallCalendars[k].busy)} :
              k \in DOMAIN CallCalendars}

\* C1: every slot of a successful get_free_slots lies inside the 09:00-17:00
\* window of the reference day and overlaps no busy period of either party
\* (slot end <= busy start or slot start >= busy end)
C1_SlotsInsideWindowAndFree ==
    (IsFreeSlotsCall /\ Succeeded(xret)) =>
        \A i \in 1..Len(xret.slots) :
            LET slot == xret.slots[i]
            IN  /\ slot.start_time.min >= Combine(CallDay, start_hour)
                /\ slot.end_time.min <= Combine(CallDay, end_hour)
                /\ \A b \in CallBusy :
                      \/ slot.end_time.min <= b["start"].min
                      \/ slot.start_time.min >= b["end"].min

\* a successful call in which a busy period strictly inside the window, on a
\* quarter hour, removed some but not all candidates
C1_Witness ==
    /\ IsFreeSlotsCall
    /\ Succeeded(xret)
    /\ Len(xret.slots) \in 1..15
    /\ \E b \in CallBusy :
          /\ b["start"].min = Combine(CallDay, start_hour) + 15
          /\ b["end"].min < Combine(CallDay, end_hour)

\* a run of _execute_plan has ended, by return or by exception
RunEnded == pc = "idle" /\ "op" \in DOMAIN outcome /\ outcome.op = "_execute_plan"

\* the step came back from the executor with a falsy success
FailedStep(c) == ~IsRaised(c.result) /\ ~Get(c.result, "success", FALSE)
FailedFreeSlots(c) == c.step.action = "get_free_slots" /\ FailedStep(c)
NonSlotFailure(c) == c.step.action # "get_free_slots" /\ FailedStep(c)

\* C2: steps go to the executor in plan order, no step goes to the executor
\* after a get_free_slots step that returned success=false, and the results
\* dict never has more entries than the plan has steps
C2_NoStepAfterSuspension ==
    /\ Len(calls) <= Len(plan)
    /\ \A i \in 1..Len(calls) :
          /\ calls[i].step = plan[i]
          /\ FailedFreeSlots(calls[i]) => i = Len(calls)
    /\ Cardinality(DOMAIN results) <= Len(plan)

\* a run that ended with steps of the plan left over after a failed
\* get_free_slots step
C2_Witness ==
    /\ RunEnded
    /\ Len(calls) > 0
    /\ Len(calls) < Len(plan)
    /\ FailedFreeSlots(calls[Len(calls)])

\* C3 as stated: a suspended run over a built plan holds strictly fewer
\* results than the plan has steps
C3_SuspendedHoldsFewer ==
    (RunEnded /\ plan \in BuilderPlans /\ recorded) =>
        Cardinality(DOMAIN results) < Len(plan)

\* C3 amended: a suspended run over a built plan holds exactly as many
\* results as the plan has steps, the suspending step being the last one
C3_SuspendedHoldsAll ==
    (RunEnded /\ plan \in BuilderPlans /\ recorded) =>
        Cardinality(DOMAIN results) = Len(plan)

\* a suspended run over the three-step built plan
C3_Witness ==
    /\ RunEnded
    /\ plan \in BuilderPlans
    /\ recorded
    /\ Len(plan) = 3

\* C4: after a run in which get_free_slots succeeded and nothing suspended,
\* the agent holds no pending action
C4_PendingClearedBySuccess ==
    (/\ RunEnded
     /\ "value" \in DOMAIN outcome
     /\ ~recorded
     /\ \E i \in 1..Len(calls) :
           calls[i].step.action = "get_free_slots" /\ Succeeded(calls[i].result))
    => pending_action = "None"

\* C5 (state part): a failed get_free_slots step that carries other_user_id
\* leaves the run suspended with pending action "get_free_slots" and that
\* id as subject, and the run returns its results; the pending action is
\* recorded only after a failed get_free_slots step
C5_State ==
    /\ \A i \in 1..Len(calls) :
          (FailedFreeSlots(calls[i]) /\ "other_user_id" \in DOMAIN calls[i].step.params) =>
              /\ recorded
              /\ pending_action = "get_free_slots"
              /\ pending_action_contact_id = calls[i].step.params["other_user_id"]
              /\ pc \in {"stopped", "idle"}
              /\ pc = "idle" => "value" \in DOMAIN outcome
    /\ recorded => (Len(calls) > 0 /\ FailedFreeSlots(calls[Len(calls)]))

\* C5 (step part): the pending fields change only in a step that records
C5_Step ==
    (pending_action' # pending_action \/ pending_action_contact_id' # pending_action_contact_id)
        => (recorded' /\ ~recorded)

\* C5: when get_free_slots returns success=false the run ends suspended with
\* pending action "get_free_slots" and the step's other_user_id as subject
\* id, and a pending action is recorded in a run in this case only
C5_SuspendsWithSubject == []C5_State /\ [][C5_Step]_vars

\* a run suspended on the free-slot step bound to contact c1 has returned
C5_Witness ==
    /\ RunEnded
    /\ recorded
    /\ "value" \in DOMAIN outcome
    /\ pending_action = "get_free_slots"
    /\ pending_action_contact_id = "c1"

\* C6 (step part): a step other than get_free_slots that fails has its
\* result stored under its key, leaves the pending fields alone and leaves
\* the loop running
C6_Step ==
    (Len(calls') = Len(calls) + 1 /\ NonSlotFailure(calls'[Len(calls')])) =>
        LET c == calls'[Len(calls')]
        IN  /\ Key(c.step) \in DOMAIN results'
            /\ results'[Key(c.step)] = c.result
            /\ UNCHANGED <<pending_action, pending_action_contact_id, recorded>>
            /\ pc' = "running"

\* C6 (state part): a run does not end on such a failure while steps remain
C6_State ==
    RunEnded =>
        \A i \in 1..Len(calls) :
            (NonSlotFailure(calls[i]) /\ i < Len(plan)) => Len(calls) > i

\* C6: the failure of a step other than get_free_slots never suspends the
\* run: the result is recorded, no pending action is set, the next step runs
C6_OtherFailuresContinue == [][C6_Step]_vars /\ []C6_State

\* a run in which find_contact failed and the following step was executed
C6_Witness ==
    /\ RunEnded
    /\ \E i \in 1..Len(calls) :
          /\ i < Len(calls)
          /\ calls[i].step.action = "find_contact"
          /\ NonSlotFailure(calls[i])
    /\ ~recorded

\* C7: in a run over a built plan where find_contact succeeded, the
\* get_free_slots step reaches the executor with other_user_id equal to the
\* contact_id find_contact returned, never with the placeholder
C7_SlotStepBoundToContact ==
    plan \in BuilderPlans =>
        \A i \in 1..Len(calls), j \in 1..Len(calls) :
            (/\ j < i
             /\ calls[j].step.action = "find_contact"
             /\ Succeeded(calls[j].result)
             /\ calls[i].step.action = "get_free_slots")
            => /\ calls[i].step.params["other_user_id"] = calls[j].result.contact_id
               /\ calls[i].step.params["other_user_id"] # "PLACEHOLDER"

Response(m, st) == [message |-> m, status |-> st]

\* C8: _generate_response maps every results dict onto one of four pairs,
\* by whether the contact was found, whether slots were found, and whether
\* the slot list is empty
C8_FourOutcomes ==
    ("op" \in DOMAIN outcome /\ outcome.op = "_generate_response") =>
        LET contactOk == /\ "contacts_find_contact" \in DOMAIN results
                         /\ Succeeded(results["contacts_find_contact"])
            slotsOk == /\ "calendar_get_free_slots" \in DOMAIN results
                       /\ Succeeded(results["calendar_get_free_slots"])
            nonEmpty == /\ slotsOk
                        /\ "slots" \in DOMAIN results["calendar_get_free_slots"]
                        /\ results["calendar_get_free_slots"].slots # << >>
        IN  outcome.value =
              CASE ~contactOk -> Response("Failed to find contact.", "error")
                [] contactOk /\ ~slotsOk ->
                     Response("Failed to find available slots. Please specify a date.", "error")
                [] contactOk /\ slotsOk /\ ~nonEmpty ->
                     Response("There are no available time slots. Would you like to try a different day?",
                              "success")
                [] contactOk /\ slotsOk /\ nonEmpty ->
                     Response("Meeting slots found and processed.", "success")

\* the response to a found contact with an empty slot list
C8_Witness ==
    /\ "op" \in DOMAIN outcome
    /\ outcome.op = "_generate_response"
    /\ "calendar_get_free_slots" \in DOMAIN results
    /\ Succeeded(results["calendar_get_free_slots"])
    /\ outcome.value.status = "success"
    /\ outcome.value.message # "Meeting slots found and processed."

\* C9: process_user_prompt always returns a {message, status} pair with
\* status success or error, and never ends by raising
C9_ReturnsPair ==
    ("op" \in DOMAIN outcome /\ outcome.op = "process_user_prompt") =>
        /\ ~IsRaised(outcome)
        /\ DOMAIN outcome.value = {"message", "status"}
        /\ outcome.value.status \in {"success", "error"}

\* C10: execute on a known api/action pair never ends by raising: it returns
\* a result that carries success
C10_ExecuteNeverRaises ==
    (<<xcall.api, xcall.action>> \in KnownPairs) =>
        /\ ~IsRaised(xret)
        /\ "success" \in DOMAIN xret

\* a call was made on the executor with an api name it does not know, or
\* with an action the named api does not define
IsUnknownCall ==
    /\ xcall # NoCall
    /\ <<xcall.api, xcall.action>> \notin KnownPairs

\* C11: execute on an unknown api, or on a known api with an action it does
\* not define, returns success=false with an error naming the unknown api or
\* action, sends no request to a collaborator and does not raise
C11_UnknownOperationRefused ==
    IsUnknownCall =>
        /\ ~IsRaised(xret)
        /\ DOMAIN xret = {"success", "error"}
        /\ xret.success = FALSE
        /\ xret.error = IF xcall.api \in {"contacts", "calendar", "preferences"}
                        THEN <<"Unknown " \o xcall.api \o " action: ", xcall.action>>
                        ELSE <<"Unknown API: ", xcall.api>>
        /\ xcall.sent = << >>

\* an unknown api was called with an action and params a known api serves
C11_Witness ==
    /\ IsUnknownCall
    /\ xcall.api = "billing"
    /\ xcall.action = "find_contact"
    /\ xcall.params = [name |-> "John"]
    /\ xret.success = FALSE

\* the api and action of every step of a plan, in order
Shape(p) == [i \in 1..Len(p) |-> <<p[i].api, p[i].action>>]

\* C12: for every intent the builder returns a non-empty plan: find_contact
\* iff contact_name is present, then get_meeting_preferences with
\* ask_user=true iff ask_preferences is true, then one get_free_slots step
\* last, and nothing else
C12_PlanShape ==
    ("op" \in DOMAIN outcome /\ outcome.op = "_create_execution_plan") =>
        /\ ~IsRaised(outcome)
        /\ Len(outcome.plan) > 0
        /\ Shape(outcome.plan) =
              (IF "contact_name" \in DOMAIN outcome.intent
               THEN << <<"contacts", "find_contact">> >> ELSE << >>)
              \o (IF Get(outcome.intent, "ask_preferences", FALSE)
                  THEN << <<"preferences", "get_meeting_preferences">> >> ELSE << >>)
              \o << <<"calendar", "get_free_slots">> >>
        /\ \A i \in 1..Len(outcome.plan) :
              outcome.plan[i].api = "preferences" =>
                  Get(outcome.plan[i].params, "ask_user", FALSE) = TRUE

\* process_user_prompt has just been served for an intent whose action is
\* not book_meeting
ClarifiedIntent(o) ==
    /\ "op" \in DOMAIN o
    /\ o.op = "process_user_prompt"
    /\ "intent" \in DOMAIN o
    /\ "action" \in DOMAIN o.intent
    /\ o.intent["action"] # "book_meeting"

\* C13 (state part): the call returned the fixed clarification message with
\* status error, built no plan and handed no step to the executor
C13_State ==
    ClarifiedIntent(outcome) =>
        /\ ~IsRaised(outcome)
        /\ outcome.value = [message |-> "I'm not sure what you want to do. Can you clarify?",
                            status |-> "error"]
        /\ plan = << >>
        /\ calls = << >>
        /\ results = EmptyDict

\* C13 (step part): serving such a prompt leaves the pending action as it was
C13_Step ==
    (runs' = runs + 1 /\ ClarifiedIntent(outcome')) =>
        UNCHANGED <<pending_action, pending_action_contact_id>>

\* C13: for a parsed intent whose action is not book_meeting,
\* process_user_prompt returns the clarification message with status error,
\* builds no plan, calls no step and leaves the pending action unchanged
C13_ClarifiesOtherIntents == []C13_State /\ [][C13_Step]_vars

\* a prompt with another intent was served while an action was pending
C13_Witness ==
    /\ ClarifiedIntent(outcome)
    /\ outcome.intent["action"] = "cancel_meeting"
    /\ pending_action = "get_free_slots"
    /\ outcome.value.status = "error"

\* the call has a reference day: its date is absent, empty or parses
CallHasWindow ==
    ~IsRaised(BaseDate(Get(xcall.params, "date", NoDate), xcall.env.today))

\* the directory resolved other_user_id to a non-empty address
CallContactResolves ==
    /\ "other_user_id" \in DOMAIN xcall.params
    /\ LET c == _get_contact_details(xcall.params["other_user_id"], xcall.env)
       IN  Get(c, "success", FALSE) /\ Get(c, "email", "") # ""

\* the calendar answered the free/busy query
CallCalendarAnswers == ~xcall.env.freebusy.raises

\* the i-th candidate of the window of the call
Candidate(i) ==
    LET t == Combine(CallDay, start_hour) + (i - 1) * 30
    IN  [start_time |-> [min |-> t, sfx |-> "Z"], end_time |-> [min |-> t + 30, sfx |-> "Z"]]

\* (workEnd - workStart) / 30 minutes
CandidateCount == ((end_hour - start_hour) * 60) \div 30

\* C14: when the contact resolves to an address and the calendar reports no
\* busy period for either party, get_free_slots succeeds with exactly
\* (workEnd - workStart) / 30 min = 16 slots that cover the window
C14_EmptyCalendarGivesAllSlots ==
    (IsFreeSlotsCall /\ CallHasWindow /\ CallContactResolves /\ CallCalendarAnswers
     /\ CallBusy = {}) =>
        /\ Succeeded(xret)
        /\ Len(xret.slots) = CandidateCount
        /\ CandidateCount = 16
        /\ \A i \in 1..CandidateCount : xret.slots[i] = Candidate(i)

\* such a call for an explicit day, whose last slot ends at 17:00
C14_Witness ==
    /\ IsFreeSlotsCall
    /\ CallContactResolves
    /\ CallCalendarAnswers
    /\ CallBusy = {}
    /\ "date" \in DOMAIN xcall.params
    /\ xcall.params["date"].kind = "iso"
    /\ Succeeded(xret)
    /\ xret.slots[16].end_time.min = Combine(CallDay, end_hour)

\* every reported busy period carries two timestamps that parse
CallBusyWellFormed ==
    \A b \in CallBusy :
        /\ {"start", "end"} \subseteq DOMAIN b
        /\ b["start"].sfx # "bad"
        /\ b["end"].sfx # "bad"

\* the candidate overlaps no reported busy period, as instants
CandidateIsFree(i) ==
    \A b \in CallBusy :
        \/ Candidate(i).end_time.min <= b["start"].min
        \/ Candidate(i).start_time.min >= b["end"].min

ReturnedSlots == {xret.slots[j] : j \in 1..Len(xret.slots)}

\* C15: when the contact resolves to an address, get_free_slots succeeds for
\* every set of busy periods the calendar reports, and a 30-minute-stride
\* candidate of the window is returned iff it overlaps no busy period
C15_ReturnsExactlyFreeCandidates ==
    (IsFreeSlotsCall /\ CallHasWindow /\ CallContactResolves /\ CallCalendarAnswers
     /\ CallBusyWellFormed) =>
        /\ Succeeded(xret)
        /\ \A i \in 1..CandidateCount : Candidate(i) \in ReturnedSlots <=> CandidateIsFree(i)

\* the date of the call is absent, None, empty or not an ISO date
CallDateUnusable ==
    \/ "date" \notin DOMAIN xcall.params
    \/ xcall.params["date"].kind \in {"none", "empty", "junk"}

\* every reported busy period carries two parsable timestamps without offset
CallBusyNaive ==
    /\ CallBusyWellFormed
    /\ \A b \in CallBusy : b["start"].sfx = "" /\ b["end"].sfx = ""

\* C16: a get_free_slots call whose date is absent or not a parsable ISO date
\* takes tomorrow as reference day and does not fail on account of the date:
\* with a resolvable contact it succeeds with the free slots of tomorrow's
\* 09:00-17:00 window
C16_UnusableDateMeansTomorrow ==
    (IsFreeSlotsCall /\ CallDateUnusable /\ CallContactResolves /\ CallCalendarAnswers
     /\ CallBusyNaive) =>
        /\ Succeeded(xret)
        /\ xret.date = xcall.env.today + 1
        /\ CallDay = xcall.env.today + 1
        /\ \A i \in 1..CandidateCount : Candidate(i) \in ReturnedSlots <=> CandidateIsFree(i)

IsBookMeetingCall ==
    /\ xcall.api = "calendar"
    /\ xcall.action = "book_meeting"
    /\ {"title", "attendees", "start_time", "end_time"} \subseteq DOMAIN xcall.params

\* what one attendee entry contributes to the invite list
KeptAddress(attendee_id) ==
    IF HasAt(attendee_id) THEN <<attendee_id>>
    ELSE LET c == _get_contact_details(attendee_id, xcall.env)
         IN  IF Get(c, "success", FALSE) /\ Get(c, "email", "") # ""
             THEN <<c.email>> ELSE << >>

RECURSIVE KeptFrom(_)
\* the kept addresses of the entries i.., in input order
KeptFrom(i) ==
    IF i > Len(xcall.params["attendees"]) THEN << >>
    ELSE KeptAddress(xcall.params["attendees"][i]) \o KeptFrom(i + 1)

\* the insert request of the call, sent after the lookups
CallInsert == xcall.sent[Len(xcall.sent)]

\* C17: book_meeting keeps, in input order, every attendee entry with '@' and
\* the address of every other entry whose get_contact_details lookup succeeds
\* with a non-empty email; the other entries are dropped without failing the
\* booking: the event is inserted with the kept addresses (even none), and
\* the returned attendees are exactly the kept addresses
C17_InviteListKeepsResolvable ==
    IsBookMeetingCall =>
        /\ Len(xcall.sent) >= 1
        /\ CallInsert.svc = "events.insert"
        /\ [i \in 1..Len(CallInsert.arg.attendees) |-> CallInsert.arg.attendees[i].email]
              = KeptFrom(1)
        /\ ~IsRaised(xret)
        /\ Succeeded(xret) <=> ~xcall.env.insert.raises
        /\ Succeeded(xret) => xret.attendees = KeptFrom(1)

\* a booking of an address and of an id the directory does not resolve
C17_Witness ==
    /\ IsBookMeetingCall
    /\ Succeeded(xret)
    /\ Len(xcall.params["attendees"]) = 2
    /\ ~HasAt(xcall.params["attendees"][1])
    /\ HasAt(xcall.params["attendees"][2])
    /\ xret.attendees = <<xcall.params["attendees"][2]>>

\* C19: in every list a successful get_free_slots returns, each slot ends 30
\* minutes after it starts, each start is 09:00 of the reference day plus a
\* whole multiple of 30 minutes, and the starts are strictly increasing (no
\* slot appears twice)
C19_SlotsOnGridInOrder ==
    (IsFreeSlotsCall /\ Succeeded(xret)) =>
        /\ \A i \in 1..Len(xret.slots) :
              LET slot == xret.slots[i]
                  offset == slot.start_time.min - Combine(CallDay, start_hour)
              IN  /\ slot.end_time.min = slot.start_time.min + duration
                  /\ offset >= 0
                  /\ offset % 30 = 0
        /\ \A i \in 1..Len(xret.slots), j \in 1..Len(xret.slots) :
              i < j => xret.slots[i].start_time.min < xret.slots[j].start_time.min

\* a returned list with a gap: two neighbours more than one stride apart
C19_Witness ==
    /\ IsFreeSlotsCall
    /\ Succeeded(xret)
    /\ \E i \in 1..(Len(xret.slots) - 1) :
          xret.slots[i + 1].start_time.min > xret.slots[i].start_time.min + SlotStride

\* the run of instance a took this step
Advanced(a) ==
    <<sessions'[a].pc, sessions'[a].done, sessions'[a].runs>>
        # <<sessions[a].pc, sessions[a].done, sessions[a].runs>>

C18_Step ==
    \A a \in Agents, b \in Agents :
        (a # b /\ Advanced(a)) =>
            /\ sessions'[b].pending_action = sessions[b].pending_action
            /\ sessions'[b].pending_action_contact_id = sessions[b].pending_action_contact_id

\* C18: the pending action is per-instance state: with two agent instances
\* whose runs interleave in any order, a step of a run on one instance never
\* sets, changes or clears the pending action or the pending subject id of
\* the other instance
C18_PendingIsPerInstance == [][C18_Step]_vars

\* both instances suspended in interleaved runs, each holding its own subject
\* id, the second still inside its run
C18_Witness ==
    /\ sessions # NoSessions
    /\ sessions["A"].pending_action = "get_free_slots"
    /\ sessions["A"].pending_action_contact_id = "PLACEHOLDER"
    /\ sessions["A"].pc = "running"
    /\ sessions["B"].pending_action = "get_free_slots"
    /\ sessions["B"].pending_action_contact_id = "c1"
    /\ sessions["B"].pc = "stopped"

\* a response was synthesized from the results of the run that just ended
Responded ==
    /\ "op" \in DOMAIN outcome
    /\ outcome.op = "_generate_response"
    /\ Len(calls) > 0

\* C20: the response to a run agrees with the run's outcome: a run that ended
\* suspended (get_free_slots failed and the pending action was recorded) is
\* answered with status error, and status success is answered only when the
\* find_contact result and the get_free_slots result of the results mapping
\* both have success = true
C20_ResponseAgreesWithRun ==
    Responded =>
        /\ recorded => outcome.value.status = "error"
        /\ outcome.value.status = "success" =>
              /\ "contacts_find_contact" \in DOMAIN results
              /\ Succeeded(results["contacts_find_contact"])
              /\ "calendar_get_free_slots" \in DOMAIN results
              /\ Succeeded(results["calendar_get_free_slots"])

\* the response to a builder-shaped run that found the contact and then
\* suspended on get_free_slots
C20_Witness ==
    /\ Responded
    /\ recorded
    /\ plan \in BuilderPlans
    /\ "contacts_find_contact" \in DOMAIN results
    /\ Succeeded(results["contacts_find_contact"])
    /\ outcome.value.status = "error"

====
